---- MODULE Spec2Model ----
(***************************************************************************)
(* The fan block of i3status-rust (src/blocks/fan.rs): Fan::update runs    *)
(* `sensors -j`, parses its JSON output, collects the fan*input readings   *)
(* that lie in [0, 10000), and renders min / max / average into the        *)
(* block's text widget.                                                    *)
(*                                                                         *)
(* Representation.                                                         *)
(*  - A text (the command's stdout, the `output` string) is a sequence of  *)
(*    lexemes: a whitespace character, a run of characters that is no      *)
(*    JSON, an invalid UTF-8 byte, U+FFFD, or the text of one complete     *)
(*    JSON value.                                                          *)
(*  - A JSON value is a number (a rational n/d, d > 0), a string or an     *)
(*    object (a function from keys to JSON values).                        *)
(*  - A metric name is a sequence of characters, so that starts_with and   *)
(*    ends_with are computed; chip ids and input labels are only ever      *)
(*    compared for equality and stay strings.                              *)
(***************************************************************************)
EXTENDS Integers, Sequences, FiniteSets, TLC

VARIABLES
    text,            \* Fan.text: the widget's current text (DisplayText)
    update_interval, \* Fan.update_interval, seconds
    format,          \* Fan.format: the compiled FormatTemplate
    chip,            \* Fan.chip: Option<String>
    inputs,          \* Fan.inputs: Option<Vec<String>>, the whitelist
    args,            \* update: the arguments of the last `sensors` invocation
    command,         \* update: what Command::output() returned in the last cycle
    output,          \* update: the `output` string handed to serde_json::from_str
    fans,            \* update: the `fans` vector of the last cycle
    diagnostics,     \* update: the values eprintln!-ed in the last cycle, in order
    values,          \* update: the `values` map of the last cycle that built one
    result           \* update: the value the last cycle returned

vars == <<text, update_interval, format, chip, inputs, args, command, output,
          fans, diagnostics, values, result>>

(***************************************************************************)
(* Option<T>                                                               *)
(***************************************************************************)
None == [some |-> FALSE]
Some(x) == [some |-> TRUE, v |-> x]

(***************************************************************************)
(* JSON values                                                             *)
(***************************************************************************)
Num(n, d) == [t |-> "num", n |-> n, d |-> d]
Str(s) == [t |-> "str", s |-> s]
Obj(m) == [t |-> "obj", m |-> m]
Null == [t |-> "null"]
NoEntries == <<>>

(***************************************************************************)
(* Lexemes of a text                                                       *)
(***************************************************************************)
Ws == [k |-> "ws"]
Word(w) == [k |-> "word", w |-> w]
InvalidByte == [k |-> "invalid"]
ReplacementChar == [k |-> "U+FFFD"]
Json(v) == [k |-> "json", j |-> v]

(***************************************************************************)
(* Metric names, character by character                                    *)
(***************************************************************************)
fan_prefix == <<"f", "a", "n">>
input_suffix == <<"i", "n", "p", "u", "t">>
fan1_input == <<"f", "a", "n", "1", "_", "i", "n", "p", "u", "t">>
fan2_input == <<"f", "a", "n", "2", "_", "i", "n", "p", "u", "t">>
fan1_min == <<"f", "a", "n", "1", "_", "m", "i", "n">>
fan1_label == <<"f", "a", "n", "1", "_", "l", "a", "b", "e", "l">>
temp1_input == <<"t", "e", "m", "p", "1", "_", "i", "n", "p", "u", "t">>
faninput == <<"f", "a", "n", "i", "n", "p", "u", "t">>
fa == <<"f", "a">>

(***************************************************************************)
(* Program constants                                                       *)
(***************************************************************************)
DefaultInterval == 15
RangeStart == 0
RangeEnd == 10000

DefaultFormat == <<[var |-> "{average}"], [lit |-> "RPM"]>>
MinMaxFormat ==
    <<[var |-> "{min}"], [lit |-> "-"], [var |-> "{max}"], [lit |-> " ("],
      [var |-> "{average}"], [lit |-> ")"]>>

(***************************************************************************)
(* Sensor Query Invoker (update, lines 99-107)                             *)
(***************************************************************************)
\* let mut args = vec!["-j"]; if let Some(ref chip) = &self.chip { args.push(chip) }
Args(c) == IF c.some THEN <<"-j", c.v>> ELSE <<"-j">>

\* String::from_utf8_lossy: every invalid byte becomes U+FFFD
FromUtf8Lossy(bytes) ==
    [i \in 1..Len(bytes) |->
        IF bytes[i].k = "invalid" THEN ReplacementChar ELSE bytes[i]]

\* str::trim: leading and trailing whitespace removed
RECURSIVE TrimStart(_)
TrimStart(s) ==
    IF s # <<>> /\ Head(s).k = "ws" THEN TrimStart(Tail(s)) ELSE s

RECURSIVE TrimEnd(_)
TrimEnd(s) ==
    IF s # <<>> /\ s[Len(s)].k = "ws" THEN TrimEnd(SubSeq(s, 1, Len(s) - 1)) ELSE s

Trim(s) == TrimEnd(TrimStart(s))

\* io::Error::to_string()
ErrorToString(e) == <<Word(e)>>

\* Invoke without the trim()
InvokeUntrimmed(cmd) ==
    IF cmd.ok THEN FromUtf8Lossy(cmd.stdout) ELSE ErrorToString(cmd.error)

\* .output().map(|o| String::from_utf8_lossy(&o.stdout).trim().to_owned())
\*          .unwrap_or_else(|e| e.to_string())
\* Command::output() is Err only when the child cannot be spawned or its
\* output cannot be collected; a child that ran is Ok whatever its status.
Invoke(cmd) ==
    IF cmd.ok THEN Trim(FromUtf8Lossy(cmd.stdout)) ELSE ErrorToString(cmd.error)

(***************************************************************************)
(* Output Parser (update, lines 109-110 and 121-124)                       *)
(***************************************************************************)
Err == [ok |-> FALSE]
Ok(x) == [ok |-> TRUE, value |-> x]

IsObject(j) == j.t = "obj"
IsNumber(j) == j.t = "num"

\* FromStr that drops what it cannot read: no mapping for a text that is no
\* JSON object, and the chips that are objects for one that is
FromStrLenient(s) ==
    LET lexemes == SelectSeq(s, LAMBDA c : c.k # "ws")
    IN  IF Len(lexemes) # 1 \/ lexemes[1].k # "json" THEN Ok(NoEntries)
        ELSE LET top == lexemes[1].j
             IN  IF ~IsObject(top) THEN Ok(NoEntries)
                 ELSE Ok([c \in {x \in DOMAIN top.m : IsObject(top.m[x])} |->
                             top.m[c].m])

\* serde_json::from_str::<HashMap<String, HashMap<String, Value>>>: one JSON
\* value with whitespace allowed around it, an object whose every member is
\* an object; the members of those are kept as they are.
FromStr(s) ==
    LET lexemes == SelectSeq(s, LAMBDA c : c.k # "ws")
    IN  IF Len(lexemes) # 1 THEN Err
        ELSE IF lexemes[1].k # "json" THEN Err
        ELSE LET top == lexemes[1].j
             IN  IF ~IsObject(top) THEN Err
                 ELSE IF \E c \in DOMAIN top.m : ~IsObject(top.m[c]) THEN Err
                 ELSE Ok([c \in DOMAIN top.m |-> top.m[c].m])

\* FromValue that keeps the numeric members of an object and drops the rest
FromValueLenient(input_values) ==
    IF ~IsObject(input_values) THEN Err
    ELSE Ok([name \in {x \in DOMAIN input_values.m : IsNumber(input_values.m[x])} |->
                input_values.m[name]])

\* serde_json::from_value::<HashMap<String, f64>>: an object whose every
\* member is a number
FromValue(input_values) ==
    IF ~IsObject(input_values) THEN Err
    ELSE IF \E name \in DOMAIN input_values.m : ~IsNumber(input_values.m[name])
         THEN Err
    ELSE Ok(input_values.m)

(***************************************************************************)
(* Reading Filter and Range Validator (update, lines 112-139)              *)
(***************************************************************************)
StartsWith(s, prefix) ==
    Len(s) >= Len(prefix) /\ SubSeq(s, 1, Len(prefix)) = prefix

EndsWith(s, suffix) ==
    Len(s) >= Len(suffix) /\ SubSeq(s, Len(s) - Len(suffix) + 1, Len(s)) = suffix

\* Whitelisted with the whitelist never consulted
WhitelistedAlways(whitelist, input_name) == TRUE

\* if let Some(ref whitelist) = self.inputs { if !whitelist.contains(..) { continue } }
Whitelisted(whitelist, input_name) ==
    whitelist.some => \E i \in 1..Len(whitelist.v) : whitelist.v[i] = input_name

\* !(!value_name.starts_with("fan") || !value_name.ends_with("input"))
IsFanInput(value_name) ==
    StartsWith(value_name, fan_prefix) /\ EndsWith(value_name, input_suffix)

\* InRange with the end included: (0f64..=10000f64)
InRangeInclusive(value) ==
    RangeStart * value.d <= value.n /\ value.n <= RangeEnd * value.d

\* (0f64..10000f64).contains(&value)
InRange(value) ==
    RangeStart * value.d <= value.n /\ value.n < RangeEnd * value.d

\* AsI64 rounding to the nearest integer: value.round() as i64
AsI64Rounded(value) ==
    IF value.n >= 0 THEN (2 * value.n + value.d) \div (2 * value.d)
    ELSE -((2 * (-value.n) + value.d) \div (2 * value.d))

\* value as i64: truncation toward zero
AsI64(value) ==
    IF value.n >= 0 THEN value.n \div value.d ELSE -((-value.n) \div value.d)

\* what one metric does to the cycle: nothing, fans.push, or eprintln!
ValueEvents(value_name, value) ==
    IF ~IsFanInput(value_name) THEN <<>>
    ELSE IF InRange(value) THEN <<[push |-> AsI64(value)]>>
    ELSE <<[eprintln |-> value]>>

\* A HashMap is iterated in an arbitrary order: every order of the keys S,
\* each key x contributing one of the event sequences of F[x].
RECURSIVE InAnyOrder(_, _)
InAnyOrder(S, F) ==
    IF S = {} THEN {<<>>}
    ELSE UNION {{h \o t : h \in F[x], t \in InAnyOrder(S \ {x}, F)} : x \in S}

\* for (value_name, value) in values_parsed { ... }
MetricEvents(values_parsed) ==
    InAnyOrder(DOMAIN values_parsed,
               [name \in DOMAIN values_parsed |->
                   {ValueEvents(name, values_parsed[name])}])

\* one (input_name, input_values) of the inner loop
InputEvents(whitelist, input_name, input_values) ==
    IF ~Whitelisted(whitelist, input_name) THEN {<<>>}
    ELSE LET values_parsed == FromValue(input_values)
         IN  IF ~values_parsed.ok THEN {<<>>}
             ELSE MetricEvents(values_parsed.value)

\* for (_chip, inputs) in parsed { for (input_name, input_values) in inputs { ... } }
CycleEvents(whitelist, parsed) ==
    InAnyOrder(DOMAIN parsed,
               [c \in DOMAIN parsed |->
                   InAnyOrder(DOMAIN parsed[c],
                              [i \in DOMAIN parsed[c] |->
                                  InputEvents(whitelist, i, parsed[c][i])])])

IsPush(e) == "push" \in DOMAIN e

Pushed(events) ==
    LET p == SelectSeq(events, IsPush) IN [i \in 1..Len(p) |-> p[i].push]

Printed(events) ==
    LET p == SelectSeq(events, LAMBDA e : ~IsPush(e))
    IN  [i \in 1..Len(p) |-> p[i].eprintln]

(***************************************************************************)
(* Aggregator (update, lines 141-154)                                      *)
(***************************************************************************)
\* IterMax for a vector taken to be sorted: fans.last()
IterLast(s) == IF s = <<>> THEN None ELSE Some(s[Len(s)])

\* fans.iter().max()
RECURSIVE IterMax(_)
IterMax(s) ==
    IF s = <<>> THEN None
    ELSE LET rest == IterMax(Tail(s))
         IN  IF rest.some /\ rest.v >= Head(s) THEN rest ELSE Some(Head(s))

\* fans.iter().min()
RECURSIVE IterMin(_)
IterMin(s) ==
    IF s = <<>> THEN None
    ELSE LET rest == IterMin(Tail(s))
         IN  IF rest.some /\ rest.v < Head(s) THEN rest ELSE Some(Head(s))

\* fans.iter().sum::<i64>()
RECURSIVE IterSum(_)
IterSum(s) == IF s = <<>> THEN 0 ELSE Head(s) + IterSum(Tail(s))

\* RoundDiv as an integer division: sum / len
RoundDivTruncated(n, d) ==
    IF n >= 0 THEN n \div d ELSE -((-n) \div d)

\* (n as f64 / d as f64).round() as i64: to the nearest integer, a half away
\* from zero (d > 0)
RoundDiv(n, d) ==
    IF n >= 0 THEN (2 * n + d) \div (2 * d) ELSE -((2 * (-n) + d) \div (2 * d))

\* let avg: i64 = (fans.iter().sum::<i64>() as f64 / fans.len() as f64).round() as i64
Average(s) == RoundDiv(IterSum(s), Len(s))

\* map!("{average}" => avg, "{min}" => min, "{max}" => max)
ValuesMap(avg, min, max) ==
    "{average}" :> avg @@ "{min}" :> min @@ "{max}" :> max

(***************************************************************************)
(* Template Compiler and Renderer (util::FormatTemplate, not in fan.rs)    *)
(***************************************************************************)
Placeholders == {"{average}", "{min}", "{max}"}

IsVar(token) == "var" \in DOMAIN token

\* FormatTemplate::from_string: a format string, given as its literal spans
\* and {placeholder}s, compiles unless it names an unknown placeholder
FromString(spans) ==
    IF \E i \in 1..Len(spans) : IsVar(spans[i]) /\ spans[i].var \notin Placeholders
    THEN Err
    ELSE Ok(spans)

\* FormatTemplate::render_static_str: literal spans as they are, each
\* placeholder replaced by the decimal string of its value
RECURSIVE RenderTokens(_, _)
RenderTokens(tokens, vals) ==
    IF tokens = <<>> THEN ""
    ELSE (IF IsVar(Head(tokens)) THEN ToString(vals[Head(tokens).var])
          ELSE Head(tokens).lit) \o RenderTokens(Tail(tokens), vals)

RenderStaticStr(template, vals) ==
    IF \E i \in 1..Len(template) :
           IsVar(template[i]) /\ template[i].var \notin DOMAIN vals
    THEN Err
    ELSE Ok(RenderTokens(template, vals))

(***************************************************************************)
(* The block: construction and the update cycle                            *)
(***************************************************************************)
\* Result<Option<Update>>
NotRun == [state |-> "none"]
Scheduled(update) == [state |-> "ok", update |-> update]
BlockError(block, message) ==
    [state |-> "err", block |-> block, message |-> message]

\* HasReadings with the test left out
HasReadingsUnchecked(s) == TRUE

\* line 141: !fans.is_empty()
HasReadings(s) == s # <<>>

\* Reschedule with the default interval, not the configured one
RescheduleDefault(interval) == Scheduled(Some(DefaultInterval))

\* line 159: Ok(Some(self.update_interval.into()))
Reschedule(interval) == Scheduled(Some(interval))

\* lines 141-159: what the cycle does with its `fans`: the new text, the
\* `values` map built (if any) and the value returned
Finish(template, interval, txt, vals, s) ==
    IF HasReadings(s)
    THEN LET max == IterMax(s)
             min == IterMin(s)
         IN  IF ~max.some
             THEN [text |-> txt, values |-> vals,
                   result |-> BlockError("temperature", "failed to get max temperature")]
             ELSE IF ~min.some
             THEN [text |-> txt, values |-> vals,
                   result |-> BlockError("temperature", "failed to get min temperature")]
             ELSE LET avg == Average(s)
                      map == ValuesMap(avg, min.v, max.v)
                      rendered == RenderStaticStr(template, map)
                  IN  IF ~rendered.ok
                      THEN [text |-> txt, values |-> Some(map),
                            result |-> BlockError("util", "unknown placeholder")]
                      ELSE [text |-> rendered.value, values |-> Some(map),
                            result |-> Reschedule(interval)]
    ELSE [text |-> txt, values |-> vals, result |-> Reschedule(interval)]

(***************************************************************************)
(* The inputs: block configurations and what `sensors` may answer          *)
(***************************************************************************)
Nct == "nct6775-isa-0290"
Thinkpad == "thinkpad-isa-0000"

FanConfigs ==
    { [interval |-> DefaultInterval, format |-> DefaultFormat,
       chip |-> None, inputs |-> None],
      [interval |-> 5, format |-> MinMaxFormat,
       chip |-> Some(Nct), inputs |-> Some(<<"fan1">>)],
      [interval |-> 60, format |-> <<[lit |-> "fan "], [var |-> "{max}"]>>,
       chip |-> None, inputs |-> Some(<<"fan2", "temp1">>)],
      [interval |-> DefaultInterval, format |-> <<[var |-> "{speed}"], [lit |-> "RPM"]>>,
       chip |-> None, inputs |-> None] }

\* -0.5, 0, 100, 101.5, 1200, 1400, 9999.5, 10000
Speeds ==
    { Num(-1, 2), Num(0, 1), Num(100, 1), Num(203, 2), Num(1200, 1),
      Num(1400, 1), Num(19999, 2), Num(RangeEnd, 1) }

\* an input may be missing from a chip
Maybe(label, S) == {NoEntries} \cup {label :> x : x \in S}

\* one chip, fan1 and fan2 each absent or holding one fanN_input
OneChipOutputs ==
    { Obj(Nct :> Obj(a @@ b)) :
        a \in Maybe("fan1", {Obj(fan1_input :> v) : v \in Speeds}),
        b \in Maybe("fan2", {Obj(fan2_input :> v) : v \in Speeds}) }

\* two chips, three fans turning at 100 or 101.5
TwoChipOutputs ==
    { Obj(Nct :> Obj("fan1" :> Obj(fan1_input :> a))
          @@ Thinkpad :> Obj("fan1" :> Obj(fan1_input :> b)
                             @@ "fan2" :> Obj(fan2_input :> c))) :
        a \in {Num(100, 1), Num(203, 2)},
        b \in {Num(100, 1), Num(203, 2)},
        c \in {Num(100, 1), Num(203, 2)} }

\* what `sensors -j` prints for a board with two fans
TypicalOutput ==
    Obj(Nct :> Obj("Adapter" :> Str("ISA adapter")
                   @@ "fan1" :> Obj(fan1_input :> Num(1200, 1) @@ fan1_min :> Num(0, 1))
                   @@ "fan2" :> Obj(fan2_input :> Num(1400, 1))
                   @@ "temp1" :> Obj(temp1_input :> Num(91, 2))))

ShapedOutputs ==
    { TypicalOutput,
      Obj(NoEntries),
      Obj(Nct :> Obj("fan1" :> Obj(NoEntries))),
      \* both readings under one input
      Obj(Nct :> Obj("fan1" :> Obj(fan1_input :> Num(1200, 1)
                                   @@ fan2_input :> Num(1400, 1)))),
      \* an input with a string member beside its reading
      Obj(Nct :> Obj("fan1" :> Obj(fan1_input :> Num(1200, 1)
                                   @@ fan1_label :> Str("CPU"))
                     @@ "fan2" :> Obj(fan2_input :> Num(1400, 1)))),
      \* an input that is a bare number, one with a null member
      Obj(Nct :> Obj("fan1" :> Num(1200, 1)
                     @@ "fan2" :> Obj(fan2_input :> Num(1400, 1)
                                      @@ fan1_min :> Num(0, 1))
                     @@ "fan3" :> Obj(fan1_input :> Num(100, 1)
                                      @@ fan1_label :> Null))),
      \* names that start with "fan" or end with "input", and one that does both
      Obj(Nct :> Obj("fan2" :> Obj(faninput :> Num(100, 1)
                                   @@ fan1_min :> Num(1400, 1)
                                   @@ fa :> Num(0, 1)
                                   @@ temp1_input :> Num(1200, 1)))) }

\* JSON that is no chip -> input -> value mapping
MisshapedOutputs ==
    { Num(1200, 1),
      Str("No sensors found!"),
      Null,
      Obj(Nct :> Str("ISA adapter")),
      Obj(Nct :> Obj("fan1" :> Obj(fan1_input :> Num(1200, 1)))
          @@ Thinkpad :> Num(1400, 1)) }

JsonOutputs ==
    OneChipOutputs \cup TwoChipOutputs \cup ShapedOutputs \cup MisshapedOutputs

\* the longest run of whitespace printed before or after the output
MaxPad == 1

Pad(n) == [i \in 1..n |-> Ws]

Stdouts ==
    {<<Json(j), Ws>> : j \in JsonOutputs}
    \cup {Pad(a) \o <<Json(TypicalOutput)>> \o Pad(b) : a, b \in 0..MaxPad}
    \cup {Pad(a) : a \in 0..MaxPad}
    \cup { <<Word("No sensors found!"), Ws>>,
           <<Json(TypicalOutput), Ws, Json(TypicalOutput), Ws>>,
           <<InvalidByte, Json(TypicalOutput), Ws>> }

\* Command::output(): Err(io::Error), or Ok(Output) with the exit status
SpawnFailed(e) == [ok |-> FALSE, error |-> e]
Exited(status, stdout) == [ok |-> TRUE, status |-> status, stdout |-> stdout]

\* before the first cycle no command has been invoked
NotInvoked == SpawnFailed("")

Commands ==
    {Exited(0, s) : s \in Stdouts}
    \cup {Exited(1, s) : s \in {<<>>, <<Json(TypicalOutput), Ws>>,
                               <<Word("No sensors found!"), Ws>>}}
    \cup {SpawnFailed(e) : e \in {"No such file or directory (os error 2)",
                                 "Permission denied (os error 13)"}}

(***************************************************************************)
(* The state machine                                                       *)
(***************************************************************************)
\* ConfigBlock::new, for every configuration it accepts
Init ==
    \E block_config \in FanConfigs :
        LET template == FromString(block_config.format)
        IN  /\ template.ok
            /\ update_interval = block_config.interval
            /\ text = ""
            /\ format = template.value
            /\ chip = block_config.chip
            /\ inputs = block_config.inputs
            /\ args = <<>>
            /\ command = NotInvoked
            /\ output = <<>>
            /\ fans = <<>>
            /\ diagnostics = <<>>
            /\ values = None
            /\ result = NotRun

\* Block::update
update ==
    \E cmd \in Commands :
        LET out == Invoke(cmd)
            parsed == FromStr(out)
        IN  /\ args' = Args(chip)
            /\ command' = cmd
            /\ output' = out
            /\ IF ~parsed.ok
               THEN /\ result' = BlockError("temperature", "sensors output is invalid")
                    /\ fans' = <<>>
                    /\ diagnostics' = <<>>
                    /\ UNCHANGED <<text, values>>
               ELSE \E events \in CycleEvents(inputs, parsed.value) :
                        LET done == Finish(format, update_interval, text, values,
                                           Pushed(events))
                        IN  /\ fans' = Pushed(events)
                            /\ diagnostics' = Printed(events)
                            /\ text' = done.text
                            /\ values' = done.values
                            /\ result' = done.result
            /\ UNCHANGED <<update_interval, format, chip, inputs>>

Next == update

Spec == Init /\ [][Next]_vars

(***************************************************************************)
(* What the properties speak of, stated on the text handed to the parser   *)
(* and not through the operators of the cycle.                             *)
(***************************************************************************)
\* a cycle has run
Ran == result.state # "none"

\* the text is one JSON value, a chip -> input -> value nested mapping,
\* with nothing but whitespace around it
IsSensorTree(t) ==
    \E i \in 1..Len(t) :
        /\ t[i].k = "json"
        /\ \A k \in 1..Len(t) : k # i => t[k].k = "ws"
        /\ t[i].j.t = "obj"
        /\ \A c \in DOMAIN t[i].j.m : t[i].j.m[c].t = "obj"

\* the chip -> input -> value mapping such a text holds
SensorTree(t) ==
    LET i == CHOOSE i \in 1..Len(t) : t[i].k = "json"
    IN  [c \in DOMAIN t[i].j.m |-> t[i].j.m[c].m]

\* the (chip, input, metric) places of a tree
Places(tree) ==
    UNION { UNION { {<<c, i, name>> : name \in
                        IF tree[c][i].t = "obj" THEN DOMAIN tree[c][i].m ELSE {}} :
                    i \in DOMAIN tree[c] } :
            c \in DOMAIN tree }

ValueAt(tree, p) == tree[p[1]][p[2]].m[p[3]]

\* the input's value is entirely a mapping of metric name to number
AllNumbers(v) == v.t = "obj" /\ \A name \in DOMAIN v.m : v.m[name].t = "num"

\* the name starts with "fan" and ends with "input"
FanInputName(name) ==
    /\ Len(name) >= 5
    /\ <<name[1], name[2], name[3]>> = <<"f", "a", "n">>
    /\ <<name[Len(name) - 4], name[Len(name) - 3], name[Len(name) - 2],
         name[Len(name) - 1], name[Len(name)]>> = <<"i", "n", "p", "u", "t">>

\* the label passes the whitelist
Listed(whitelist, label) ==
    ~whitelist.some \/ label \in {whitelist.v[i] : i \in 1..Len(whitelist.v)}

\* the fan*input metrics of the wholly numeric inputs, whatever their label
FanMetrics(tree) ==
    {p \in Places(tree) : AllNumbers(tree[p[1]][p[2]]) /\ FanInputName(p[3])}

\* 0 <= value < 10000
Within(v) == 0 <= v.n /\ v.n < 10000 * v.d

\* a value in [0, 10000) truncated to an integer
Whole(v) == v.n \div v.d

\* how often x occurs in the sequence s
Count(s, x) == Cardinality({i \in 1..Len(s) : s[i] = x})

\* the sequence s holds, counted with repetitions, the values f[p] of p in P
HoldsExactly(s, P, f) ==
    /\ Len(s) = Cardinality(P)
    /\ \A p \in P : Count(s, f[p]) = Cardinality({q \in P : f[q] = f[p]})

RECURSIVE SumOver(_, _)
SumOver(P, f) ==
    IF P = {} THEN 0
    ELSE LET p == CHOOSE p \in P : TRUE IN f[p] + SumOver(P \ {p}, f)

Least(s) == CHOOSE x \in {s[i] : i \in 1..Len(s)} : \A i \in 1..Len(s) : x <= s[i]
Greatest(s) == CHOOSE x \in {s[i] : i \in 1..Len(s)} : \A i \in 1..Len(s) : x >= s[i]

\* a is sum / count rounded to the nearest integer, an exact half rounded up
NearestHalfUp(a, sum, count) ==
    2 * count * a - count <= 2 * sum /\ 2 * sum < 2 * count * a + count

\* the mean of the sequence s, rounded down
Mean(s) == SumOver(DOMAIN s, s) \div Len(s)

\* one cycle: with no reading the text is kept, and the cycle succeeds if the
\* output parsed; with readings the text becomes the rendering of their
\* least, their greatest and their mean rounded half up
C1_Step ==
    IF fans' = <<>>
    THEN /\ text' = text
         /\ IsSensorTree(output') => result'.state = "ok"
    ELSE /\ result'.state = "ok"
         /\ \E a \in {Mean(fans'), Mean(fans') + 1} :
                /\ NearestHalfUp(a, SumOver(DOMAIN fans', fans'), Len(fans'))
                /\ text' = RenderTokens(format,
                                        ValuesMap(a, Least(fans'), Greatest(fans')))

(***************************************************************************)
(* C1: DisplayText is the rendering of the aggregates of the most recent   *)
(* cycle that produced a non-empty ReadingSet, and its initial value if    *)
(* none has: a cycle with an empty ReadingSet on a well-formed output      *)
(* succeeds and leaves the text as it was, and a cycle with a non-empty    *)
(* one sets the text to the rendering of the aggregates of its readings.   *)
(***************************************************************************)
C1_TextIsLastRendering == (text = "") /\ [][C1_Step]_vars

\* an empty cycle that succeeded after a cycle that set the text
C1_Witness ==
    /\ result.state = "ok"
    /\ fans = <<>>
    /\ IsSensorTree(output)
    /\ text # ""

\* one cycle on a text the parser must reject
C2_Step ==
    ~IsSensorTree(output') =>
        /\ result' = BlockError("temperature", "sensors output is invalid")
        /\ fans' = <<>>
        /\ text' = text
        /\ values' = values

(***************************************************************************)
(* C2: when the output text is not valid JSON or not a chip -> input ->    *)
(* value nested mapping, the cycle fails with the parser's error, no       *)
(* reading is aggregated and the text stays what it was.                   *)
(***************************************************************************)
C2_ParseErrorIsFatal == [][C2_Step]_vars

\* a failed cycle on valid JSON of the wrong shape that held a fan reading,
\* after a cycle that set the text
C2_Witness ==
    /\ result.state = "err"
    /\ text # ""
    /\ \E i \in 1..Len(output) :
           /\ output[i].k = "json"
           /\ output[i].j.t = "obj"
           /\ \E c \in DOMAIN output[i].j.m : output[i].j.m[c].t = "obj"

(***************************************************************************)
(* The invocation of the last cycle                                        *)
(***************************************************************************)
\* the texts of the errors Command::output() can return
IoErrorTexts ==
    { <<Word("No such file or directory (os error 2)")>>,
      <<Word("Permission denied (os error 13)")>> }

\* the last invocation failed: the command could not be run, or it ran and
\* exited with a non-zero status
InvocationFailed == ~command.ok \/ command.status # 0

\* C3 as stated: on every invocation failure (command missing, non-zero
\* exit, I/O error) the parser is handed the stringified error and not the
\* standard output; on success it is handed the trimmed standard output.
C3_AsStated ==
    Ran =>
        IF InvocationFailed
        THEN output \in IoErrorTexts
        ELSE output = Trim(FromUtf8Lossy(command.stdout))

\* C3, amended: when the command cannot be run (Command::output() returns
\* an error) the cycle does not end with that error: the parser is handed
\* the stringified error, and the only failure the cycle reports is the
\* parser's; whenever the command ran, with a zero or a non-zero exit
\* status, the parser is handed its standard output, decoded and trimmed.
C3_OutputOfInvocation ==
    Ran =>
        /\ args = (IF chip.some THEN <<"-j", chip.v>> ELSE <<"-j">>)
        /\ IF command.ok
           THEN /\ output = Trim(FromUtf8Lossy(command.stdout))
                /\ output # <<>> =>
                       output[1].k # "ws" /\ output[Len(output)].k # "ws"
           ELSE /\ output = <<Word(command.error)>>
                /\ result = BlockError("temperature", "sensors output is invalid")

\* a command that exited with a non-zero status and printed sensor data:
\* the cycle used its standard output and succeeded
C3_Witness ==
    /\ Ran
    /\ command.ok
    /\ command.status # 0
    /\ output = Trim(FromUtf8Lossy(command.stdout))
    /\ fans # <<>>
    /\ result.state = "ok"

\* a command that could not be run: its error text went to the parser
C3_WitnessSpawn ==
    /\ Ran
    /\ ~command.ok
    /\ output \in IoErrorTexts

(***************************************************************************)
(* C4: a cycle whose output text parses returns the request to run again   *)
(* after the configured interval, whether or not the text changed; a       *)
(* cycle fails exactly when the parser rejects the output text.            *)
(***************************************************************************)
C4_AlwaysRescheduled ==
    Ran =>
        IF IsSensorTree(output)
        THEN result = [state |-> "ok", update |-> Some(update_interval)]
        ELSE result.state = "err"

\* a successful cycle that discarded an out-of-range reading, kept none and
\* left the text alone, under a configured interval that is not the default
C4_Witness ==
    /\ result.state = "ok"
    /\ result.update = Some(update_interval)
    /\ update_interval # DefaultInterval
    /\ fans = <<>>
    /\ diagnostics # <<>>

(***************************************************************************)
(* The readings of the last cycle, when its output text parsed             *)
(***************************************************************************)
Parsed == Ran /\ IsSensorTree(output)

Tree == SensorTree(output)

\* the fan*input metrics under the inputs the whitelist accepts
Candidates == {p \in FanMetrics(Tree) : Listed(inputs, p[2])}

ValueOf == [p \in Places(Tree) |-> ValueAt(Tree, p)]

WholeOf == [p \in FanMetrics(Tree) |-> Whole(ValueAt(Tree, p))]

\* the candidates in range: the ReadingSet, place by place
Accepted == {p \in Candidates : Within(ValueOf[p])}

\* the fan*input metrics in range, whatever the label of their input
InRangeFanMetrics == {p \in FanMetrics(Tree) : Within(ValueOf[p])}

\* the tree without the inputs that are not wholly numeric
Pruned(tree) ==
    [c \in DOMAIN tree |->
        [i \in {l \in DOMAIN tree[c] : AllNumbers(tree[c][l])} |-> tree[c][i]]]

\* the fan*input members, numbers in range, of the inputs that are skipped
SkippedReadings ==
    {p \in Places(Tree) :
        /\ ~AllNumbers(Tree[p[1]][p[2]])
        /\ Listed(inputs, p[2])
        /\ FanInputName(p[3])
        /\ ValueOf[p].t = "num"
        /\ Within(ValueOf[p])}

(***************************************************************************)
(* C5: a fan*input value under an accepted input is added to the           *)
(* ReadingSet, truncated, iff it lies in [0, 10000) (0 in, 10000 out); a   *)
(* value outside is not added and is reported by a diagnostic, the cycle   *)
(* does not fail and the other readings are still aggregated.              *)
(***************************************************************************)
C5_RangeFilter ==
    Parsed =>
        /\ HoldsExactly(fans, {p \in Candidates : Within(ValueOf[p])}, WholeOf)
        /\ HoldsExactly(diagnostics, {p \in Candidates : ~Within(ValueOf[p])}, ValueOf)
        /\ \A p \in Candidates :
               /\ ValueOf[p] = Num(0, 1) => Count(fans, 0) >= 1
               /\ ValueOf[p] = Num(10000, 1) =>
                      Count(diagnostics, ValueOf[p]) >= 1 /\ Count(fans, 10000) = 0
        /\ result.state = "ok"

\* a cycle that read exactly 0 and exactly 10000: 0 was aggregated, 10000
\* was reported, and the text was rendered from the remaining reading
C5_Witness ==
    /\ Parsed
    /\ fans = <<0>>
    /\ diagnostics = <<Num(10000, 1)>>
    /\ result.state = "ok"
    /\ values = Some(ValuesMap(0, 0, 0))

(***************************************************************************)
(* C6: the aggregates a cycle renders satisfy                              *)
(* 0 <= min <= average <= max < 10000.                                     *)
(***************************************************************************)
C6_AggregateBounds ==
    values.some =>
        /\ 0 <= values.v["{min}"]
        /\ values.v["{min}"] <= values.v["{average}"]
        /\ values.v["{average}"] <= values.v["{max}"]
        /\ values.v["{max}"] < 10000

\* aggregates strictly apart, with the largest reading the filter lets in
C6_Witness ==
    /\ values.some
    /\ values.v["{min}"] < values.v["{average}"]
    /\ values.v["{average}"] < values.v["{max}"]
    /\ values.v["{max}"] = 9999
    /\ values.v["{min}"] = 0

(***************************************************************************)
(* C7: for a non-empty ReadingSet min is the smallest reading, max the     *)
(* largest, and average the sum of all accepted readings over their count  *)
(* rounded to the nearest integer, a half rounded up (100 and 101 give     *)
(* 101; 1200 and 1400 give 1300, "1300RPM" under the default template);    *)
(* sum and count run over every accepted reading of every chip and input,  *)
(* equal values counted as often as they occur.                            *)
(***************************************************************************)
C7_Aggregates ==
    (Parsed /\ Accepted # {}) =>
        /\ values.some
        /\ \E p \in Accepted : values.v["{min}"] = WholeOf[p]
        /\ \A p \in Accepted : values.v["{min}"] <= WholeOf[p]
        /\ \E p \in Accepted : values.v["{max}"] = WholeOf[p]
        /\ \A p \in Accepted : values.v["{max}"] >= WholeOf[p]
        /\ NearestHalfUp(values.v["{average}"], SumOver(Accepted, WholeOf),
                         Cardinality(Accepted))
        /\ {WholeOf[p] : p \in Accepted} = {100, 101} /\ Cardinality(Accepted) = 2
               => values.v["{average}"] = 101
        /\ {WholeOf[p] : p \in Accepted} = {1200, 1400} /\ Cardinality(Accepted) = 2
               => /\ values.v = ValuesMap(1300, 1200, 1400)
                  /\ format = DefaultFormat => text = "1300RPM"

\* three fans on two chips, two of them at 100 and one at 101: the average
\* is 100, where counting each value once would give 101
C7_Witness ==
    /\ Parsed
    /\ Cardinality(Accepted) = 3
    /\ Cardinality({p[1] : p \in Accepted}) = 2
    /\ {WholeOf[p] : p \in Accepted} = {100, 101}
    /\ values = Some(ValuesMap(100, 100, 101))
    /\ text = "100RPM"

\* fan1_input = 1200 and fan2_input = 1400 under the default template
C7_WitnessExample ==
    /\ Parsed
    /\ Cardinality(Accepted) = 2
    /\ values = Some(ValuesMap(1300, 1200, 1400))
    /\ text = "1300RPM"

(***************************************************************************)
(* C8: with a Whitelist, the ReadingSet holds the in-range fan readings    *)
(* of the inputs whose label is in the Whitelist, on every chip, and no    *)
(* other; without one, no input is left out for its label.                 *)
(***************************************************************************)
C8_Whitelist ==
    Parsed =>
        IF inputs.some
        THEN HoldsExactly(fans,
                          {p \in InRangeFanMetrics :
                               \E i \in 1..Len(inputs.v) : inputs.v[i] = p[2]},
                          WholeOf)
        ELSE HoldsExactly(fans, InRangeFanMetrics, WholeOf)

\* whitelist ["fan1"], fan1 on two chips and fan2 on one: the two fan1
\* readings are kept and the fan2 reading is not
C8_Witness ==
    /\ Parsed
    /\ inputs = Some(<<"fan1">>)
    /\ {p[2] : p \in InRangeFanMetrics} = {"fan1", "fan2"}
    /\ Cardinality({p[1] : p \in InRangeFanMetrics}) = 2
    /\ Len(fans) = 2
    /\ Cardinality(InRangeFanMetrics) = 3

(***************************************************************************)
(* C9: an input whose value is not entirely a mapping of metric name to    *)
(* number is skipped as a whole: it adds no reading, not even from its     *)
(* numeric fan*input members, the cycle does not fail, and the cycle does  *)
(* what it would do were that input absent from the output.                *)
(***************************************************************************)
C9_SkippedInput ==
    Parsed =>
        /\ result.state = "ok"
        /\ \E events \in CycleEvents(inputs, Pruned(Tree)) :
               fans = Pushed(events) /\ diagnostics = Printed(events)
        /\ Len(fans) = Cardinality(Accepted)

\* an input with a string member and a fan reading in range was skipped,
\* and the reading of the other input was aggregated
C9_Witness ==
    /\ Parsed
    /\ SkippedReadings # {}
    /\ fans = <<1400>>
    /\ values = Some(ValuesMap(1400, 1400, 1400))

\* one cycle, against every order in which its maps can be iterated
C10_Step ==
    IF IsSensorTree(output')
    THEN \A events \in CycleEvents(inputs, SensorTree(output')) :
             /\ (Pushed(events) = <<>>) <=> (fans' = <<>>)
             /\ Finish(format, update_interval, text, values, Pushed(events))
                    = [text |-> text', values |-> values', result |-> result']
    ELSE result'.state = "err" /\ text' = text

====
